---- MODULE Spec2Model ----
(***************************************************************************)
(* A model of tinybmp's storage reader (src/src/reader.rs), of the raw     *)
(* bitmap sessions built on it and the color type resolver                 *)
(* (src/src/raw_bmp.rs) and of the row/pixel decoder (src/src/raw_iter.rs, *)
(* src/src/iter.rs).                                                       *)
(*                                                                         *)
(* Byte slices are sequences of 0..255; a Rust index i is the TLA+ index   *)
(* i + 1.  A panic (arithmetic overflow in a build with overflow checks,   *)
(* a slice index out of range, a RefCell borrow fault, unwrap on None)     *)
(* ends the run: the record an operation returns carries tag "Panic".      *)
(***************************************************************************)
EXTENDS Integers, Sequences, FiniteSets, TLC

\* ---------------------------------------------------------------- bounds
\* Longest of the short sources a stand-alone reader is put over.
MaxLen == 7
\* Largest of the small strides asked of chunks_exact.
MaxStride == 3
\* Pulls (next / next_back) made on one stand-alone chunk sequence.
MaxPulls == 5
\* Largest width and height of a decoded image.
MaxWidth == 2
MaxHeight == 2
\* Entries of the color table of an indexed image.
MaxPalette == 2
\* Bytes a file may lack at its end.
MaxTrunc == 1
\* Pulls a pixel sequence is given that return no pixel.
MaxNones == 2
\* Longest destination buffer handed to a single read.
MaxBuf == 3

\* ------------------------------------------------------ program constants
\* reader.rs:69  const INTERNAL_BUFFER_SIZE: usize = 200
INTERNAL_BUFFER_SIZE == 200
\* reader.rs:3   core::usize::MAX, here of a target whose usize has 16 bits
MAX == 65535

\* ------------------------------------------------------------- variables
VARIABLES
    overflow_checks,   \* the build: TRUE = overflow panics, FALSE = it wraps
    reader,            \* the stand-alone SliceReader
    iter,              \* its chunk sequence (SliceReaderIterator) or NoIter
    pulls,             \* what each pull on it returned, in order
    rpc,               \* "new", "iter", "err", "panic"
    rerr,              \* the error chunks_exact returned, or "none"
    image,             \* the logical image the decoded files encode
    sess,              \* the two decoding sessions, run one after the other
    call,              \* a single call under test: the operation and its arguments
    ret                \* what that call returned, or NoRet before it ran

rvars == <<reader, iter, pulls, rpc, rerr>>

svars == <<image, sess>>

cvars == <<call, ret>>

vars == <<overflow_checks, reader, iter, pulls, rpc, rerr, image, sess, call, ret>>

\* No single call is under test / it has not returned yet.
NoCall == [op |-> "none"]

NoRet == [tag |-> "none"]

\* ------------------------------------------------------------ arithmetic
\* usize arithmetic as a build without overflow checks computes it.
WrappingAdd(a, b) == (a + b) % (MAX + 1)

WrappingSub(a, b) == (a - b + (MAX + 1)) % (MAX + 1)

\* &s[lo..hi] of a slice s, for 0 <= lo <= hi <= s.len()
Slice(s, lo, hi) == SubSeq(s, lo + 1, hi)

\* buffer[0..n].copy_from_slice(src), for n = src.len() <= buffer.len()
CopyFromSlice(buffer, src) ==
    [i \in 1..Len(buffer) |-> IF i <= Len(src) THEN src[i] ELSE buffer[i]]

\* -------------------------------------------------------------- reader.rs
NoIter == [index |-> 0, stride |-> 0, rindex |-> 0, live |-> FALSE]

\* SliceReader::new: the source slice and a zeroed internal buffer in a
\* RefCell; borrows counts the Ref views of the buffer that are still held.
SliceReader_new(slice) ==
    [image_data |-> slice,
     buffer     |-> [i \in 1..INTERNAL_BUFFER_SIZE |-> 0],
     borrows    |-> 0]

\* read without its size test: it copies as many bytes as the destination
\* takes and reports success.
SliceReader_read_Truncating(rd, start, end, buffer, chk) ==
    LET n == IF Len(buffer) < end - start THEN Len(buffer) ELSE end - start
    IN  IF start > end \/ start + n > Len(rd.image_data)
        THEN [tag |-> "Panic", err |-> "none", buffer |-> buffer]
        ELSE [tag |-> "Ok", err |-> "none",
              buffer |-> CopyFromSlice(buffer, Slice(rd.image_data, start, start + n))]

\* read that hands back a destination rebuilt from the copied bytes alone:
\* what lies behind them is zeroed.
SliceReader_read_ZeroTail(rd, start, end, buffer, chk) ==
    LET read_size == WrappingSub(end, start)
    IN  IF chk /\ end < start
        THEN [tag |-> "Panic", err |-> "none", buffer |-> buffer]
        ELSE IF read_size > Len(buffer)
        THEN [tag |-> "Err", err |-> "BufferTooSmall", buffer |-> buffer]
        ELSE IF start > end \/ end > Len(rd.image_data)
        THEN [tag |-> "Panic", err |-> "none", buffer |-> buffer]
        ELSE [tag |-> "Ok", err |-> "none",
              buffer |-> CopyFromSlice([i \in 1..Len(buffer) |-> 0],
                                       Slice(rd.image_data, start, end))]

\* SliceReader::read(positions, buffer): tag "Ok" with the written buffer,
\* "Err" with the error, or "Panic".
SliceReader_read(rd, start, end, buffer, chk) ==
    LET read_size == WrappingSub(end, start)
    IN  IF chk /\ end < start
        THEN [tag |-> "Panic", err |-> "none", buffer |-> buffer]
        ELSE IF read_size > Len(buffer)
        THEN [tag |-> "Err", err |-> "BufferTooSmall", buffer |-> buffer]
        ELSE IF start > end \/ end > Len(rd.image_data)
        THEN [tag |-> "Panic", err |-> "none", buffer |-> buffer]
        ELSE [tag |-> "Ok", err |-> "none",
              buffer |-> CopyFromSlice(buffer, Slice(rd.image_data, start, end))]

\* buffered_read over a buffer that is not borrow-checked: it refills the
\* buffer whether or not a view of it is held.
SliceReader_buffered_read_Unguarded(rd, start, end, chk) ==
    LET size0     == WrappingSub(end, start)
        big       == size0 > INTERNAL_BUFFER_SIZE
        \* buffer.len() - read_size, which underflows whenever big
        inner     == WrappingSub(INTERNAL_BUFFER_SIZE, size0)
        read_size == IF big THEN WrappingSub(size0, inner) ELSE size0
        e1        == WrappingSub(end, INTERNAL_BUFFER_SIZE)
        end2      == IF big THEN WrappingAdd(e1, read_size) ELSE end
        overflow  == end < start \/ big
        fault     == \/ chk /\ overflow
                     \/ read_size > INTERNAL_BUFFER_SIZE  \* buffer[0..read_size]
                     \/ start > end2                      \* image_data[positions]
                     \/ end2 > Len(rd.image_data)
                     \/ read_size # end2 - start          \* copy_from_slice
    IN  IF fault
        THEN [tag |-> "Panic", reader |-> rd, len |-> 0]
        ELSE [tag |-> "Ok",
              reader |-> [rd EXCEPT
                  !.buffer = CopyFromSlice(@, Slice(rd.image_data, start, end2)),
                  !.borrows = @ + 1],
              len |-> read_size]

\* SliceReader::buffered_read(positions): never an Err.  tag "Ok" with the
\* reader after the copy (one more Ref held) and the length of the view
\* &buffer[0..read_size], or "Panic".
SliceReader_buffered_read(rd, start, end, chk) ==
    LET size0     == WrappingSub(end, start)
        big       == size0 > INTERNAL_BUFFER_SIZE
        \* buffer.len() - read_size, which underflows whenever big
        inner     == WrappingSub(INTERNAL_BUFFER_SIZE, size0)
        read_size == IF big THEN WrappingSub(size0, inner) ELSE size0
        e1        == WrappingSub(end, INTERNAL_BUFFER_SIZE)
        end2      == IF big THEN WrappingAdd(e1, read_size) ELSE end
        overflow  == end < start \/ big
        fault     == \/ chk /\ overflow
                     \/ rd.borrows > 0                    \* borrow_mut
                     \/ read_size > INTERNAL_BUFFER_SIZE  \* buffer[0..read_size]
                     \/ start > end2                      \* image_data[positions]
                     \/ end2 > Len(rd.image_data)
                     \/ read_size # end2 - start          \* copy_from_slice
    IN  IF fault
        THEN [tag |-> "Panic", reader |-> rd, len |-> 0]
        ELSE [tag |-> "Ok",
              reader |-> [rd EXCEPT
                  !.buffer = CopyFromSlice(@, Slice(rd.image_data, start, end2)),
                  !.borrows = @ + 1],
              len |-> read_size]

\* The stride test off by one: a stride one above the capacity passes.
ChunkTooLarge_OffByOne(stride) == stride > INTERNAL_BUFFER_SIZE + 1

\* The stride test of chunks_exact.
ChunkTooLarge(stride) == stride > INTERNAL_BUFFER_SIZE

\* SliceReader::chunks_exact(stride)
SliceReader_chunks_exact(rd, stride) ==
    IF ChunkTooLarge(stride)
    THEN [tag |-> "Err", err |-> "RequestedChunkTooLarge", iter |-> NoIter]
    ELSE [tag |-> "Ok", err |-> "none",
          iter |-> [index |-> MAX, stride |-> stride,
                    rindex |-> Len(rd.image_data), live |-> TRUE]]

\* What a pull returns: tag "Some" (a chunk: the view &buffer[0..len] after
\* reading the source range lo..hi), "None", or "Panic"; with the chunk
\* sequence and the reader as the pull leaves them.
PullResult(tag, it, rd, lo, hi, len) ==
    [tag |-> tag, iter |-> it, reader |-> rd, lo |-> lo, hi |-> hi, len |-> len]

\* self.reader.buffered_read(range).ok() at the end of a pull: r is what
\* buffered_read returned for the range lo..hi.
ChunkRead(r, it, lo, hi) ==
    PullResult(IF r.tag = "Ok" THEN "Some" ELSE "Panic", it, r.reader, lo, hi, r.len)

\* The exhaustion test without its "- 1": the window that ends exactly at
\* rindex is taken for exhaustion.
ForwardExhausted_NoMinusOne(index, stride, rindex) ==
    WrappingAdd(index, stride) >= rindex

\* The exhaustion test of next: index + stride - 1 >= rindex
ForwardExhausted(index, stride, rindex) ==
    WrappingSub(WrappingAdd(index, stride), 1) >= rindex

\* <SliceReaderIterator as Iterator>::next
SliceReaderIterator_next(it, rd, chk) ==
    LET ov1    == it.index # MAX /\ it.index + it.stride > MAX
        index1 == IF it.index = MAX THEN 0 ELSE WrappingAdd(it.index, it.stride)
        it1    == [it EXCEPT !.index = index1]
        ov2    == index1 + it.stride > MAX \/ index1 + it.stride < 1
        hi     == WrappingAdd(index1, it.stride)
    IN  IF chk /\ ov1 THEN PullResult("Panic", it, rd, 0, 0, 0)
        ELSE IF chk /\ ov2 THEN PullResult("Panic", it1, rd, 0, 0, 0)
        ELSE IF ForwardExhausted(index1, it.stride, it.rindex)
        THEN PullResult("None", it1, rd, 0, 0, 0)
        ELSE ChunkRead(SliceReader_buffered_read(rd, index1, hi, chk),
                       it1, index1, hi)

\* The exhaustion test of next_back:
\* (index != MAX && index >= rindex - stride + 1) || rindex == MAX
BackwardExhausted(index, stride, rindex) ==
    \/ index # MAX /\ index >= WrappingAdd(WrappingSub(rindex, stride), 1)
    \/ rindex = MAX

\* <SliceReaderIterator as DoubleEndedIterator>::next_back
SliceReaderIterator_next_back(it, rd, chk) ==
    LET ov1     == it.rindex # 0 /\ it.rindex < it.stride
        rindex1 == IF it.rindex = 0 THEN MAX ELSE WrappingSub(it.rindex, it.stride)
        it1     == [it EXCEPT !.rindex = rindex1]
        \* rindex - stride + 1 is evaluated only when index != MAX
        ov2     == it.index # MAX /\
                   (rindex1 < it.stride \/ rindex1 - it.stride + 1 > MAX)
        ov3     == rindex1 + it.stride > MAX
        hi      == WrappingAdd(rindex1, it.stride)
    IN  IF chk /\ ov1 THEN PullResult("Panic", it, rd, 0, 0, 0)
        ELSE IF chk /\ ov2 THEN PullResult("Panic", it1, rd, 0, 0, 0)
        ELSE IF BackwardExhausted(it.index, it.stride, rindex1)
        THEN PullResult("None", it1, rd, 0, 0, 0)
        ELSE IF chk /\ ov3 THEN PullResult("Panic", it1, rd, 0, 0, 0)
        ELSE ChunkRead(SliceReader_buffered_read(rd, rindex1, hi, chk),
                       it1, rindex1, hi)

\* ------------------------------------------------------- raw colors (u32)
\* A u32 raw color is kept as its high byte and its low 24 bits.
U32(hi, lo) == [hi |-> hi, lo |-> lo]

\* u32::from of a u8 / u16 / 24-bit value
U32From(v) == U32(0, v)

\* ------------------------------------------------ the BMP header (header.rs)
\* Little-endian reads of a field at byte offset off (0-based).
ReadU16(b, off) == b[off + 1] + 256 * b[off + 2]

\* For fields below 2^31.
ReadU32(b, off) ==
    b[off + 1] + 256 * b[off + 2] + 65536 * b[off + 3] + 16777216 * b[off + 4]

\* A signed 32-bit field: two's complement when the top bit is set.
ReadI32(b, off) ==
    IF b[off + 4] < 128
    THEN ReadU32(b, off)
    ELSE -(1 + (255 - b[off + 1]) + 256 * (255 - b[off + 2])
             + 65536 * (255 - b[off + 3]) + 16777216 * (255 - b[off + 4]))

\* The fixed prefix: signature, file size, reserved, pixel-data offset.
FIXED_PORTION_OF_BMP_HEADER_SIZE == 14

\* The prefix and the 40-byte info header.
InfoHeaderEnd == 54

SupportedBpp == {1, 4, 8, 16, 24, 32}

\* Header::bytes_per_row: ceil(width * bpp / 8) rounded up to 4 bytes
BytesPerRow(width, bpp) == ((width * bpp + 31) \div 32) * 4

\* ChannelMasks: the bit masks of the red, green, blue and alpha channels.
ChannelMasks(red, green, blue, alpha) ==
    [red |-> red, green |-> green, blue |-> blue, alpha |-> alpha]

\* ChannelMasks::RGB555 = 0x7C00, 0x03E0, 0x001F, 0
ChannelMasks_RGB555 == ChannelMasks(31744, 992, 31, 0)

\* ChannelMasks::RGB565 = 0xF800, 0x07E0, 0x001F, 0
ChannelMasks_RGB565 == ChannelMasks(63488, 2016, 31, 0)

\* ChannelMasks::RGB888 = 0xFF0000, 0x00FF00, 0x0000FF, 0
ChannelMasks_RGB888 == ChannelMasks(16711680, 65280, 255, 0)

\* Option<ChannelMasks>
SomeMasks(m) == [some |-> TRUE, masks |-> m]

NoMasks == [some |-> FALSE, masks |-> ChannelMasks(0, 0, 0, 0)]

NoHeader ==
    [file_size |-> 0, image_data_start |-> 0, bpp |-> 0,
     image_size |-> [width |-> 0, height |-> 0], image_data_len |-> 0,
     channel_masks |-> NoMasks, row_order |-> "BottomUp"]

ParseOk(header, table) ==
    [tag |-> "Ok", err |-> "none", arg |-> 0, header |-> header,
     color_table |-> table]

\* A ParseError; arg is the value the error carries, 0 when it carries none.
ParseErr(err, arg) ==
    [tag |-> "Err", err |-> err, arg |-> arg, header |-> NoHeader,
     color_table |-> <<>>]

\* Header::parse_size(prefix): the file size and the pixel-data offset.
Header_parse_size(b) ==
    IF Len(b) < FIXED_PORTION_OF_BMP_HEADER_SIZE
    THEN ParseErr("UnexpectedEndOfFile", 0)
    ELSE IF <<b[1], b[2]>> # <<66, 77>> THEN ParseErr("InvalidFileSignature", 0)
    ELSE ParseOk([NoHeader EXCEPT !.file_size = ReadU32(b, 2),
                                  !.image_data_start = ReadU32(b, 10)], <<>>)

\* Header::parse(bytes): the header and, for bit depths <= 8, the color
\* table (the 4-byte entries that follow the header).  Of the header
\* variants only the 40-byte one, which carries no channel masks, is read.
Header_parse(b) ==
    IF Len(b) < InfoHeaderEnd THEN ParseErr("UnexpectedEndOfFile", 0)
    ELSE IF <<b[1], b[2]>> # <<66, 77>> THEN ParseErr("InvalidFileSignature", 0)
    ELSE IF ReadU32(b, 14) # 40
    THEN ParseErr("UnsupportedHeaderLength", ReadU32(b, 14))
    ELSE IF ReadU16(b, 28) \notin SupportedBpp
    THEN ParseErr("UnsupportedBpp", ReadU16(b, 28))
    ELSE IF ReadU32(b, 30) # 0
    THEN ParseErr("UnsupportedCompressionMethod", ReadU32(b, 30))
    ELSE
      LET bpp     == ReadU16(b, 28)
          width   == ReadU32(b, 18)
          h       == ReadI32(b, 22)
          height  == IF h < 0 THEN -h ELSE h
          used    == ReadU32(b, 46)
          entries == IF used # 0 THEN used ELSE 2 ^ bpp
          tabend  == InfoHeaderEnd + 4 * entries
          header  ==
              [file_size |-> ReadU32(b, 2),
               image_data_start |-> ReadU32(b, 10),
               bpp |-> bpp,
               image_size |-> [width |-> width, height |-> height],
               image_data_len |-> BytesPerRow(width, bpp) * height,
               channel_masks |-> NoMasks,
               row_order |-> IF h < 0 THEN "TopDown" ELSE "BottomUp"]
      IN  IF bpp > 8 THEN ParseOk(header, <<>>)
          ELSE IF tabend > Len(b) \/ tabend > header.image_data_start
          THEN ParseErr("MissingColorTable", 0)
          ELSE ParseOk(header, Slice(b, InfoHeaderEnd, tabend))

\* ------------------------------------------------------------ raw_bmp.rs
\* What ColorType::from_header returns: Ok(color_type), or Err with the
\* parse error in color_type.
ColorTypeOk(color_type) == [tag |-> "Ok", color_type |-> color_type]

ColorTypeErr(err) == [tag |-> "Err", color_type |-> err]

\* The arms of bit depths 1, 4, 8 and 24 with their result swapped around.
ColorType_direct_Shifted(bpp) ==
    CASE bpp = 1  -> ColorTypeOk("Index4")
      [] bpp = 4  -> ColorTypeOk("Index8")
      [] bpp = 8  -> ColorTypeOk("Index1")
      [] bpp = 24 -> ColorTypeOk("Xrgb8888")

\* The arms Bits1, Bits4, Bits8 and Bits24 of ColorType::from_header
ColorType_direct(bpp) ==
    CASE bpp = 1  -> ColorTypeOk("Index1")
      [] bpp = 4  -> ColorTypeOk("Index4")
      [] bpp = 8  -> ColorTypeOk("Index8")
      [] bpp = 24 -> ColorTypeOk("Rgb888")

\* The Bits16 arm with the fallback of absent masks taken for unknown masks
\* as well.
ColorType_bits16_Lenient(channel_masks) ==
    IF channel_masks.some /\ channel_masks.masks = ChannelMasks_RGB565
    THEN ColorTypeOk("Rgb565")
    ELSE ColorTypeOk("Rgb555")

\* The arm Bits16 of ColorType::from_header
ColorType_bits16(channel_masks) ==
    IF channel_masks.some
    THEN CASE channel_masks.masks = ChannelMasks_RGB555 -> ColorTypeOk("Rgb555")
           [] channel_masks.masks = ChannelMasks_RGB565 -> ColorTypeOk("Rgb565")
           [] OTHER -> ColorTypeErr("UnsupportedChannelMasks")
    ELSE ColorTypeOk("Rgb555")

\* The Bits32 arm that tests the color channels only, not the alpha mask.
ColorType_bits32_IgnoresAlpha(channel_masks) ==
    IF channel_masks.some
    THEN IF /\ channel_masks.masks.red = ChannelMasks_RGB888.red
            /\ channel_masks.masks.green = ChannelMasks_RGB888.green
            /\ channel_masks.masks.blue = ChannelMasks_RGB888.blue
         THEN ColorTypeOk("Xrgb8888")
         ELSE ColorTypeErr("UnsupportedChannelMasks")
    ELSE ColorTypeOk("Xrgb8888")

\* The arm Bits32 of ColorType::from_header
ColorType_bits32(channel_masks) ==
    IF channel_masks.some
    THEN IF channel_masks.masks = ChannelMasks_RGB888
         THEN ColorTypeOk("Xrgb8888")
         ELSE ColorTypeErr("UnsupportedChannelMasks")
    ELSE ColorTypeOk("Xrgb8888")

\* ColorType::from_header
ColorType_from_header(header) ==
    CASE header.bpp \in {1, 4, 8, 24} -> ColorType_direct(header.bpp)
      [] header.bpp = 16 -> ColorType_bits16(header.channel_masks)
      [] header.bpp = 32 -> ColorType_bits32(header.channel_masks)

NoBmp ==
    [header |-> NoHeader, color_type |-> "none", color_table |-> <<>>,
     image_data |-> <<>>, image_reader |-> FALSE]

\* The result of a constructor: arg is the value the error carries (0 when
\* it carries none), header_buffer the caller's buffer as the call leaves
\* it, reads the ranges the call asked the reader for, in order.
BmpResult(tag, err, arg, bmp, header_buffer, reads) ==
    [tag |-> tag, err |-> err, arg |-> arg, bmp |-> bmp,
     header_buffer |-> header_buffer, reads |-> reads]

\* bytes.get(start..end).is_some()
SliceGetOk(bytes, start, end) == start <= end /\ end <= Len(bytes)

\* RawBmp::from_slice(bytes)
RawBmp_from_slice(bytes) ==
    LET p  == Header_parse(bytes)
        ct == ColorType_from_header(p.header)
        data_length ==
            BytesPerRow(p.header.image_size.width, p.header.bpp)
                * p.header.image_size.height
        start == p.header.image_data_start
    IN  IF p.tag # "Ok" THEN BmpResult("Err", p.err, p.arg, NoBmp, <<>>, <<>>)
        ELSE IF ct.tag # "Ok"
        THEN BmpResult("Err", ct.color_type, 0, NoBmp, <<>>, <<>>)
        ELSE IF ~SliceGetOk(bytes, start, start + data_length)
        THEN BmpResult("Err", "UnexpectedEndOfFile", 0, NoBmp, <<>>, <<>>)
        ELSE BmpResult("Ok", "none", 0,
                 [header |-> p.header, color_type |-> ct.color_type,
                  color_table |-> p.color_table,
                  image_data |-> Slice(bytes, start, start + data_length),
                  image_reader |-> FALSE], <<>>, <<>>)

\* from_reader that reads the header before it compares the pixel-data
\* offset with the header buffer's length.
RawBmp_from_reader_ReadsFirst(rd, header_buffer, chk) ==
    LET zero == [i \in 1..FIXED_PORTION_OF_BMP_HEADER_SIZE |-> 0]
        r1   == SliceReader_read(rd, 0, FIXED_PORTION_OF_BMP_HEADER_SIZE, zero, chk)
        sz   == Header_parse_size(r1.buffer)
        image_data_start == sz.header.image_data_start
        r2   == SliceReader_read(rd, 0, image_data_start, header_buffer, chk)
        p    == Header_parse(r2.buffer)
        ct   == ColorType_from_header(p.header)
        rs1  == <<<<0, FIXED_PORTION_OF_BMP_HEADER_SIZE>>>>
        rs2  == Append(rs1, <<0, image_data_start>>)
    IN  IF r1.tag = "Panic"
        THEN BmpResult("Panic", "none", 0, NoBmp, header_buffer, rs1)
        ELSE IF r1.tag = "Err"
        THEN BmpResult("Err", r1.err, 0, NoBmp, header_buffer, rs1)
        ELSE IF sz.tag # "Ok"
        THEN BmpResult("Err", sz.err, sz.arg, NoBmp, header_buffer, rs1)
        ELSE IF r2.tag = "Panic"
        THEN BmpResult("Panic", "none", 0, NoBmp, header_buffer, rs2)
        ELSE IF r2.tag = "Err"
        THEN BmpResult("Err", r2.err, 0, NoBmp, header_buffer, rs2)
        ELSE IF image_data_start > Len(header_buffer)
        THEN BmpResult("Err", "UnsupportedHeaderLength", image_data_start,
                       NoBmp, r2.buffer, rs2)
        ELSE IF p.tag # "Ok"
        THEN BmpResult("Err", p.err, p.arg, NoBmp, r2.buffer, rs2)
        ELSE IF ct.tag # "Ok"
        THEN BmpResult("Err", ct.color_type, 0, NoBmp, r2.buffer, rs2)
        ELSE BmpResult("Ok", "none", 0,
                 [header |-> p.header, color_type |-> ct.color_type,
                  color_table |-> p.color_table,
                  image_data |-> <<>>,
                  image_reader |-> TRUE], r2.buffer, rs2)

\* RawBmp::from_reader(reader, header_buffer): the result and the header
\* buffer as the call leaves it.
RawBmp_from_reader(rd, header_buffer, chk) ==
    LET zero == [i \in 1..FIXED_PORTION_OF_BMP_HEADER_SIZE |-> 0]
        r1   == SliceReader_read(rd, 0, FIXED_PORTION_OF_BMP_HEADER_SIZE, zero, chk)
        sz   == Header_parse_size(r1.buffer)
        image_data_start == sz.header.image_data_start
        r2   == SliceReader_read(rd, 0, image_data_start, header_buffer, chk)
        p    == Header_parse(r2.buffer)
        ct   == ColorType_from_header(p.header)
        rs1  == <<<<0, FIXED_PORTION_OF_BMP_HEADER_SIZE>>>>
        rs2  == Append(rs1, <<0, image_data_start>>)
    IN  IF r1.tag = "Panic"
        THEN BmpResult("Panic", "none", 0, NoBmp, header_buffer, rs1)
        ELSE IF r1.tag = "Err"
        THEN BmpResult("Err", r1.err, 0, NoBmp, header_buffer, rs1)
        ELSE IF sz.tag # "Ok"
        THEN BmpResult("Err", sz.err, sz.arg, NoBmp, header_buffer, rs1)
        ELSE IF image_data_start > Len(header_buffer)
        THEN BmpResult("Err", "UnsupportedHeaderLength", image_data_start,
                       NoBmp, header_buffer, rs1)
        ELSE IF r2.tag = "Panic"
        THEN BmpResult("Panic", "none", 0, NoBmp, header_buffer, rs2)
        ELSE IF r2.tag = "Err"
        THEN BmpResult("Err", r2.err, 0, NoBmp, header_buffer, rs2)
        ELSE IF p.tag # "Ok"
        THEN BmpResult("Err", p.err, p.arg, NoBmp, r2.buffer, rs2)
        ELSE IF ct.tag # "Ok"
        THEN BmpResult("Err", ct.color_type, 0, NoBmp, r2.buffer, rs2)
        ELSE BmpResult("Ok", "none", 0,
                 [header |-> p.header, color_type |-> ct.color_type,
                  color_table |-> p.color_table,
                  image_data |-> <<>>,
                  image_reader |-> TRUE], r2.buffer, rs2)

\* ------------------------------------------------------------ raw_iter.rs
\* RawDataSlice<I, LittleEndian> over a view of len bytes: how many values
\* of bit depth bpp its iterator holds.
RawDataUnits(len, bpp) ==
    IF bpp < 8 THEN len * (8 \div bpp) ELSE len \div (bpp \div 8)

\* The values of a byte taken least significant group first.
RawDataAt_LsbFirst(view, pos, bpp) ==
    CASE bpp = 1  -> U32From((view[pos \div 8 + 1] \div (2 ^ (pos % 8))) % 2)
      [] bpp = 4  -> U32From((view[pos \div 2 + 1]
                                \div (IF pos % 2 = 0 THEN 1 ELSE 16)) % 16)
      [] bpp = 8  -> U32From(view[pos + 1])
      [] bpp = 16 -> U32From(view[2 * pos + 1] + 256 * view[2 * pos + 2])
      [] bpp = 24 -> U32From(view[3 * pos + 1] + 256 * view[3 * pos + 2]
                                + 65536 * view[3 * pos + 3])
      [] bpp = 32 -> U32(view[4 * pos + 4],
                         view[4 * pos + 1] + 256 * view[4 * pos + 2]
                                + 65536 * view[4 * pos + 3])

\* The fourth byte of a 32-bit value masked off.
RawDataAt_HighByteMasked(view, pos, bpp) ==
    CASE bpp = 1  -> U32From((view[pos \div 8 + 1] \div (2 ^ (7 - (pos % 8)))) % 2)
      [] bpp = 4  -> U32From((view[pos \div 2 + 1]
                                \div (IF pos % 2 = 0 THEN 16 ELSE 1)) % 16)
      [] bpp = 8  -> U32From(view[pos + 1])
      [] bpp = 16 -> U32From(view[2 * pos + 1] + 256 * view[2 * pos + 2])
      [] bpp = 24 -> U32From(view[3 * pos + 1] + 256 * view[3 * pos + 2]
                                + 65536 * view[3 * pos + 3])
      [] bpp = 32 -> U32From(view[4 * pos + 1] + 256 * view[4 * pos + 2]
                                + 65536 * view[4 * pos + 3])

\* Sub-byte values not cut to their width: the byte shifted down, with the
\* groups above the wanted one left in.
RawDataAt_Unmasked(view, pos, bpp) ==
    CASE bpp = 1  -> U32From(view[pos \div 8 + 1] \div (2 ^ (7 - (pos % 8))))
      [] bpp = 4  -> U32From(view[pos \div 2 + 1]
                                \div (IF pos % 2 = 0 THEN 16 ELSE 1))
      [] bpp = 8  -> U32From(view[pos + 1])
      [] bpp = 16 -> U32From(view[2 * pos + 1] + 256 * view[2 * pos + 2])
      [] bpp = 24 -> U32From(view[3 * pos + 1] + 256 * view[3 * pos + 2]
                                + 65536 * view[3 * pos + 3])
      [] bpp = 32 -> U32(view[4 * pos + 4],
                         view[4 * pos + 1] + 256 * view[4 * pos + 2]
                                + 65536 * view[4 * pos + 3])

\* Value number pos (from 0) of that iterator, widened to u32: sub-byte
\* values most significant group first, multi-byte values little-endian.
RawDataAt(view, pos, bpp) ==
    CASE bpp = 1  -> U32From((view[pos \div 8 + 1] \div (2 ^ (7 - (pos % 8)))) % 2)
      [] bpp = 4  -> U32From((view[pos \div 2 + 1]
                                \div (IF pos % 2 = 0 THEN 16 ELSE 1)) % 16)
      [] bpp = 8  -> U32From(view[pos + 1])
      [] bpp = 16 -> U32From(view[2 * pos + 1] + 256 * view[2 * pos + 2])
      [] bpp = 24 -> U32From(view[3 * pos + 1] + 256 * view[3 * pos + 2]
                                + 65536 * view[3 * pos + 3])
      [] bpp = 32 -> U32(view[4 * pos + 4],
                         view[4 * pos + 1] + 256 * view[4 * pos + 2]
                                + 65536 * view[4 * pos + 3])

\* current_row: iter::Take over the RawDataSlice iterator of the chunk view
\* &buffer[0..len]; pos values are consumed, left more may be taken.
EmptyRow == [len |-> 0, pos |-> 0, left |-> 0]

\* Take::next on current_row: [some, row] (the value is RawDataAt of the
\* old pos when some).
TakeNext(row, bpp) ==
    IF row.left = 0 THEN [some |-> FALSE, row |-> row]
    ELSE IF row.pos >= RawDataUnits(row.len, bpp)
    THEN [some |-> FALSE, row |-> [row EXCEPT !.left = @ - 1]]
    ELSE [some |-> TRUE, row |-> [row EXCEPT !.left = @ - 1, !.pos = @ + 1]]

NoColor == U32(0, 0)

NoPull == PullResult("NoPull", NoIter, SliceReader_new(<<>>), 0, 0, 0)

\* RawColors::new asking for chunks no longer than the reader's buffer when
\* the row is longer.
RawColors_new_Clamped(bmp, rd) ==
    LET stride  == BytesPerRow(bmp.header.image_size.width, bmp.header.bpp)
        clamped == IF stride > INTERNAL_BUFFER_SIZE
                   THEN INTERNAL_BUFFER_SIZE ELSE stride
    IN  IF ~bmp.image_reader
        THEN [tag |-> "Panic",
              colors |-> [rows |-> NoIter, row_order |-> bmp.header.row_order,
                          current_row |-> EmptyRow, width |-> 0]]
        ELSE [tag |-> "Ok",
              colors |->
                  [rows |-> SliceReader_chunks_exact(rd, clamped).iter,
                   row_order |-> bmp.header.row_order,
                   current_row |-> EmptyRow,
                   width |-> bmp.header.image_size.width]]

\* RawColors::new(raw_bmp): tag "Panic" when image_reader is None (unwrap);
\* iter2 is the chunk sequence of the reader, None (live = FALSE) when
\* chunks_exact fails.
RawColors_new(bmp, rd) ==
    IF ~bmp.image_reader
    THEN [tag |-> "Panic",
          colors |-> [rows |-> NoIter, row_order |-> bmp.header.row_order,
                      current_row |-> EmptyRow, width |-> 0]]
    ELSE [tag |-> "Ok",
          colors |->
              [rows |-> SliceReader_chunks_exact(rd,
                            BytesPerRow(bmp.header.image_size.width,
                                        bmp.header.bpp)).iter,
               row_order |-> bmp.header.row_order,
               current_row |-> EmptyRow,
               width |-> bmp.header.image_size.width]]

\* ChunkReaderWrapper::next / next_back: None without a chunk sequence.
ChunkReaderWrapper_pull(rows, row_order, rd, chk) ==
    IF ~rows.live THEN PullResult("None", rows, rd, 0, 0, 0)
    ELSE IF row_order = "TopDown"
    THEN SliceReaderIterator_next(rows, rd, chk)
    ELSE SliceReaderIterator_next_back(rows, rd, chk)

ColorResult(tag, color, colors, rd, pull) ==
    [tag |-> tag, color |-> color, colors |-> colors, reader |-> rd, pull |-> pull]

\* The Ref a pull returned is a temporary of the statement that binds
\* next_row: it is dropped (the borrow released) when the statement ends.
ReleaseRef(rd) == [rd EXCEPT !.borrows = IF @ > 0 THEN @ - 1 ELSE 0]

\* RawColors::next once current_row is empty and the pull for the next
\* row has returned: the row becomes current_row and gives the color.
RawColors_next_row(colors, bpp, rd, pull) ==
    LET c1  == [colors EXCEPT !.rows = pull.iter]
        row == [len |-> pull.len, pos |-> 0, left |-> colors.width]
    IN  IF pull.tag = "Panic" THEN ColorResult("Panic", NoColor, c1, rd, pull)
        ELSE IF pull.tag = "None" THEN ColorResult("None", NoColor, c1, rd, pull)
        ELSE IF TakeNext(row, bpp).some
        THEN ColorResult("Some", RawDataAt(pull.reader.buffer, 0, bpp),
                 [c1 EXCEPT !.current_row = TakeNext(row, bpp).row],
                 ReleaseRef(pull.reader), pull)
        ELSE ColorResult("None", NoColor,
                 [c1 EXCEPT !.current_row = TakeNext(row, bpp).row],
                 ReleaseRef(pull.reader), pull)

\* <RawColors as Iterator>::next, t1 being current_row.next()
RawColors_next_take(colors, bpp, rd, chk, t1) ==
    IF t1.some
    THEN ColorResult("Some", RawDataAt(rd.buffer, colors.current_row.pos, bpp),
             [colors EXCEPT !.current_row = t1.row], rd, NoPull)
    ELSE RawColors_next_row([colors EXCEPT !.current_row = t1.row], bpp, rd,
             ChunkReaderWrapper_pull(colors.rows, colors.row_order, rd, chk))

\* <RawColors as Iterator>::next
RawColors_next(colors, bpp, rd, chk) ==
    RawColors_next_take(colors, bpp, rd, chk, TakeNext(colors.current_row, bpp))

\* Rectangle::new(Point::zero(), size).points(): row-major, x fastest.
Points_new(size) == [x |-> 0, y |-> 0, width |-> size.width, height |-> size.height]

\* Points::next: [some, point, points]
Points_next(pts) ==
    IF pts.width = 0 \/ pts.y >= pts.height
    THEN [some |-> FALSE, point |-> [x |-> 0, y |-> 0], points |-> pts]
    ELSE [some |-> TRUE, point |-> [x |-> pts.x, y |-> pts.y],
          points |-> IF pts.x + 1 >= pts.width
                     THEN [pts EXCEPT !.x = 0, !.y = @ + 1]
                     ELSE [pts EXCEPT !.x = @ + 1]]

\* RawPixels::new(raw_bmp)
RawPixels_new(bmp, rd) ==
    LET c == RawColors_new(bmp, rd)
    IN  [tag |-> c.tag,
         pixels |-> [colors |-> c.colors, bpp |-> bmp.header.bpp,
                     points |-> Points_new(bmp.header.image_size)]]

NoPixels ==
    [colors |-> [rows |-> NoIter, row_order |-> "BottomUp",
                 current_row |-> EmptyRow, width |-> 0],
     bpp |-> 0, points |-> Points_new([width |-> 0, height |-> 0])]

\* RawPixels::next, c being colors.next() and p being points.next(),
\* which is called only when c is a color.
RawPixels_next_color(px, c, p) ==
    IF c.tag # "Some"
    THEN [tag |-> c.tag, pixel |-> [position |-> p.point, color |-> NoColor],
          pixels |-> [px EXCEPT !.colors = c.colors],
          reader |-> c.reader, pull |-> c.pull]
    ELSE IF ~p.some
    THEN [tag |-> "None", pixel |-> [position |-> p.point, color |-> NoColor],
          pixels |-> [px EXCEPT !.colors = c.colors],
          reader |-> c.reader, pull |-> c.pull]
    ELSE [tag |-> "Some", pixel |-> [position |-> p.point, color |-> c.color],
          pixels |-> [px EXCEPT !.colors = c.colors, !.points = p.points],
          reader |-> c.reader, pull |-> c.pull]

\* <RawPixels as Iterator>::next: the color first, then the position.
RawPixels_next(px, rd, chk) ==
    RawPixels_next_color(px, RawColors_next(px.colors, px.bpp, rd, chk),
                         Points_next(px.points))

\* -------------------------------------------------------------- iter.rs
\* RawU16::from_u32 / RawU24::from_u32: the low 16 / 24 bits.
RawU16_from_u32(color) == color.lo % 65536

RawU24_from_u32(color) == color.lo

\* Pixels::next, the arms of the color types without a color table: the
\* raw value the color is made from.
Pixels_next_raw(color_type, color) ==
    IF color_type \in {"Rgb555", "Rgb565"}
    THEN RawU16_from_u32(color)
    ELSE RawU24_from_u32(color)

\* The entry a pull leaves in the history: its direction, whether the caller
\* still held an earlier chunk, what the pull returned, the source range it
\* read and the bytes seen through the chunk it yielded.
PullEntry(dir, held, r) ==
    [dir |-> dir, held |-> held, tag |-> r.tag, lo |-> r.lo, hi |-> r.hi,
     bytes |-> IF r.tag = "Some" THEN Slice(r.reader.buffer, 0, r.len) ELSE <<>>]

\* --------------------------------------------------------------- lib.rs
\* ColorTable::get(index): the entry's B, G, R bytes as a 24-bit raw color,
\* or None when the table has no entry of that index.
ColorTable_get(table, index) ==
    IF index < Len(table) \div 4
    THEN [some |-> TRUE,
          color |-> table[4 * index + 1] + 256 * table[4 * index + 2]
                      + 65536 * table[4 * index + 3]]
    ELSE [some |-> FALSE, color |-> 0]

\* raw_bmp.color_bpp().bits()
RawBmp_color_bpp(bmp) == bmp.header.bpp

\* raw_bmp.color_table().is_some()
RawBmp_has_color_table(bmp) == Len(bmp.color_table) > 0

\* The bit depths C::Raw::BITS_PER_PIXEL of the color types a Bmp is made
\* for: BinaryColor, Gray2, Gray4, Gray8, Rgb555 / Rgb565, Rgb888 and a
\* 32-bit one.
ColorBits == {1, 2, 4, 8, 16, 24, 32}

\* from_slice taking every image with a color table for any color type,
\* the 4-bit ones too.
Bmp_from_slice_AnyIndexed(bytes, bits) ==
    LET raw == RawBmp_from_slice(bytes)
        bpp == RawBmp_color_bpp(raw.bmp)
    IN  IF raw.tag # "Ok" THEN raw
        ELSE IF bits # bpp
                /\ ~(bpp = 32 /\ bits = 24)
                /\ ~RawBmp_has_color_table(raw.bmp)
        THEN BmpResult("Err", "MismatchedBpp", bpp, NoBmp, <<>>, <<>>)
        ELSE raw

\* Bmp::<C>::from_slice(bytes), bits being C::Raw::BITS_PER_PIXEL: the
\* RawBmp the Bmp wraps, or the error.
Bmp_from_slice(bytes, bits) ==
    LET raw == RawBmp_from_slice(bytes)
        bpp == RawBmp_color_bpp(raw.bmp)
    IN  IF raw.tag # "Ok" THEN raw
        ELSE IF bits # bpp
                /\ ~(bpp = 32 /\ bits = 24)
                /\ ~((bpp = 1 \/ bpp = 8) /\ RawBmp_has_color_table(raw.bmp))
        THEN BmpResult("Err", "MismatchedBpp", bpp, NoBmp, <<>>, <<>>)
        ELSE raw

\* Bmp::from_reader(_reader): the reader is not looked at; the bitmap is
\* parsed from 100 zero bytes.
Bmp_from_reader(rd) == RawBmp_from_slice([i \in 1..100 |-> 0])

\* --------------------------------------------------- the decoded files
\* Little-endian writes.
WriteU16(v) == <<v % 256, v \div 256>>

WriteU32(v) ==
    <<v % 256, (v \div 256) % 256, (v \div 65536) % 256, v \div 16777216>>

WriteI32(v) ==
    IF v >= 0 THEN WriteU32(v)
    ELSE [i \in 1..4 |-> 255 - WriteU32(-v - 1)[i]]

NoImage == [bpp |-> 0, width |-> 0, height |-> 0, pat |-> 0]

\* The pixels of the 1-bit row 0b10110000 of width 5.
Row10110 == <<1, 0, 1, 1, 0>>

\* Single-row images beyond the small sizes: the 1-bit row 0b10110000; two
\* 32-bit pixels that differ in their high byte only; the narrowest 32-bit
\* row longer than the file header; the narrowest 32-bit row longer than
\* the reader's buffer.
SpecialImages ==
    {[bpp |-> 1, width |-> Len(Row10110), height |-> 1, pat |-> 2],
     [bpp |-> 32, width |-> 2, height |-> 1, pat |-> 3],
     [bpp |-> 32, width |-> InfoHeaderEnd \div 4 + 1, height |-> 1, pat |-> 0],
     [bpp |-> 32, width |-> INTERNAL_BUFFER_SIZE \div 4 + 1, height |-> 1, pat |-> 0]}

\* The logical images: every bit depth, small sizes, two color patterns;
\* and the single-row images above.
Images ==
    [bpp : SupportedBpp, width : 1..MaxWidth, height : 1..MaxHeight, pat : {0, 1}]
        \cup SpecialImages

\* The raw color of the logical image at (x, y): a checkerboard for 1 bit,
\* else a value that differs from pixel to pixel and from byte to byte.
LogicalColor(img, x, y) ==
    LET n  == 1 + x + img.width * y + img.pat
        lo == 65536 * n + 256 * (n + 1) + (n + 2)
    IN  CASE img.pat = 2  -> U32From(Row10110[x + 1])
          [] img.pat = 3  -> U32(x + 1, 1193046)
          [] img.bpp = 1  -> U32From((x + y + img.pat) % 2)
          [] img.bpp = 4  -> U32From(n % 16)
          [] img.bpp = 8  -> U32From((37 * n) % 256)
          [] img.bpp = 16 -> U32From((1031 * n) % 65536)
          [] img.bpp = 24 -> U32From(lo)
          [] img.bpp = 32 -> U32(n + 3, lo)

\* The little-endian bytes of a raw color.
ColorBytes(c) ==
    <<c.lo % 256, (c.lo \div 256) % 256, c.lo \div 65536, c.hi>>

\* For bit depths below 8: the byte i0 of row y, packing the values from
\* the j-th of the byte on, the first in the most significant bits.
RECURSIVE PackFrom(_, _, _, _)
PackFrom(img, y, i0, j) ==
    LET per == 8 \div img.bpp
        x   == per * i0 + j
        v   == IF x < img.width THEN LogicalColor(img, x, y).lo ELSE 0
    IN  IF j >= per THEN 0
        ELSE v * (2 ^ (img.bpp * (per - 1 - j))) + PackFrom(img, y, i0, j + 1)

\* The stored bytes of logical row y: the packed pixels, then zero padding
\* up to the row stride.
EncodeRow(img, y) ==
    [i \in 1..BytesPerRow(img.width, img.bpp) |->
        IF img.bpp < 8 THEN PackFrom(img, y, i - 1, 0)
        ELSE LET k == img.bpp \div 8
                 x == (i - 1) \div k
             IN  IF x < img.width
                 THEN ColorBytes(LogicalColor(img, x, y))[((i - 1) % k) + 1]
                 ELSE 0]

\* Where the pixel data starts: after the header and the color table.
DataStart(img) ==
    InfoHeaderEnd + (IF img.bpp <= 8 THEN 4 * MaxPalette ELSE 0)

DataLen(img) == BytesPerRow(img.width, img.bpp) * img.height

\* The color table: black, white, then grays; 4-byte BGR0 entries.
Palette(img) ==
    IF img.bpp > 8 THEN <<>>
    ELSE [i \in 1..(4 * MaxPalette) |->
             IF i % 4 = 0 THEN 0
             ELSE IF (i - 1) \div 4 = 1 THEN 255 ELSE (40 * ((i - 1) \div 4)) % 256]

\* The pixel data: the rows bottom first (BottomUp) or top first (TopDown).
PixelData(img, order) ==
    LET stride == BytesPerRow(img.width, img.bpp)
    IN  [i \in 1..DataLen(img) |->
            LET r == (i - 1) \div stride
                y == IF order = "BottomUp" THEN img.height - 1 - r ELSE r
            IN  EncodeRow(img, y)[((i - 1) % stride) + 1]]

\* The BMP file of a logical image in the given row order.
BmpFile(img, order) ==
    <<66, 77>>
    \o WriteU32(DataStart(img) + DataLen(img))
    \o <<0, 0, 0, 0>>
    \o WriteU32(DataStart(img))
    \o WriteU32(40)
    \o WriteU32(img.width)
    \o WriteI32(IF order = "TopDown" THEN -img.height ELSE img.height)
    \o WriteU16(1)
    \o WriteU16(img.bpp)
    \o WriteU32(0)
    \o WriteU32(DataLen(img))
    \o WriteU32(2835) \o WriteU32(2835)
    \o WriteU32(IF img.bpp <= 8 THEN MaxPalette ELSE 0)
    \o WriteU32(0)
    \o Palette(img)
    \o PixelData(img, order)

\* --------------------------------------------------- the decoding sessions
\* lib.rs:139  let mut header = [10u8; 128]
HeaderBufferLen == 128

\* A session decodes one file, from the slice (RawBmp::from_slice) or
\* through a SliceReader over it (RawBmp::from_reader).
NewSession(kind, order, file, hblen) ==
    [kind |-> kind, order |-> order, file |-> file,
     reader |-> SliceReader_new(IF kind \in {"reader", "bmp_reader"}
                                THEN file ELSE <<>>),
     header_buffer |-> [i \in 1..hblen |-> 10],
     pc |-> "start", err |-> "none", arg |-> 0, reads |-> <<>>,
     bmp |-> NoBmp, pixels |-> NoPixels,
     out |-> <<>>, nones |-> 0, chunks |-> <<>>]

\* Header buffers: the crate example's, and one that holds the 40-byte
\* header but not a whole color table behind it.
HeaderBufferLens == {HeaderBufferLen, InfoHeaderEnd + 4 * (MaxPalette - 1)}

\* The two sessions of a run: the same file by slice and by reader, or a
\* BottomUp and a TopDown file of the same image by the same kind.
SessionPairs ==
    {<<[kind |-> "slice", order |-> o], [kind |-> "reader", order |-> o]>> :
        o \in {"BottomUp", "TopDown"}}
    \cup
    {<<[kind |-> k, order |-> "BottomUp"], [kind |-> k, order |-> "TopDown"]>> :
        k \in {"slice", "reader"}}

Truncated(file, t) == SubSeq(file, 1, Len(file) - t)

\* How many bytes a file of img lacks: none or a few of its pixel data, all
\* but one byte less than the fixed prefix, or all from the last byte
\* before the pixel data on.
Cuts(img) ==
    (0..MaxTrunc)
    \cup {DataStart(img) + DataLen(img) - (FIXED_PORTION_OF_BMP_HEADER_SIZE - 1),
          DataLen(img) + 1}

Init ==
    /\ overflow_checks \in BOOLEAN
    /\ image \in Images
    /\ \E pair \in SessionPairs, t \in Cuts(image), hblen \in HeaderBufferLens :
         sess = [s \in {1, 2} |->
                    NewSession(pair[s].kind, pair[s].order,
                               Truncated(BmpFile(image, pair[s].order), t),
                               hblen)]
    /\ reader = SliceReader_new(<<>>)
    /\ iter = NoIter
    /\ pulls = <<>>
    /\ rpc = "idle"
    /\ rerr = "none"
    /\ call = NoCall
    /\ ret = NoRet

\* A session is over: it failed, it faulted, or its pixel sequence has
\* returned no pixel.
Finished(x) == x.pc \in {"err", "panic"} \/ (x.pc = "pixels" /\ x.nones >= 1)

\* The first session runs before the second starts.
Turn(s) == IF s = 1 THEN sess[2].pc = "start" ELSE Finished(sess[1])

Constructed(s, r) ==
    /\ sess' = [sess EXCEPT ![s] =
                  [@ EXCEPT !.pc = IF r.tag = "Ok" THEN "bmp"
                                   ELSE IF r.tag = "Err" THEN "err" ELSE "panic",
                            !.err = r.err,
                            !.arg = r.arg,
                            !.reads = r.reads,
                            !.bmp = r.bmp,
                            !.header_buffer =
                                IF sess[s].kind = "reader"
                                THEN r.header_buffer ELSE @]]
    /\ UNCHANGED <<call, ret, overflow_checks, reader, iter, pulls, rpc, rerr, image>>

\* RawBmp::from_slice(file)
FromSlice(s) ==
    /\ Turn(s)
    /\ sess[s].pc = "start" /\ sess[s].kind = "slice"
    /\ Constructed(s, RawBmp_from_slice(sess[s].file))

\* RawBmp::from_reader(&reader, &mut header_buffer)
FromReader(s) ==
    /\ Turn(s)
    /\ sess[s].pc = "start" /\ sess[s].kind = "reader"
    /\ Constructed(s, RawBmp_from_reader(sess[s].reader, sess[s].header_buffer,
                                         overflow_checks))

\* bmp.pixels()
Pixels(s) ==
    /\ Turn(s)
    /\ sess[s].pc = "bmp"
    /\ LET r == RawPixels_new(sess[s].bmp, sess[s].reader)
       IN  sess' = [sess EXCEPT ![s] =
                      [@ EXCEPT !.pc = IF r.tag = "Ok" THEN "pixels" ELSE "panic",
                                !.pixels = r.pixels]]
    /\ UNCHANGED <<call, ret, overflow_checks, reader, iter, pulls, rpc, rerr, image>>

\* The session after a pull that returned r.
Pulled(x, r) ==
    [x EXCEPT
       !.pc = IF r.tag = "Panic" THEN "panic" ELSE "pixels",
       !.pixels = r.pixels,
       !.reader = r.reader,
       !.out = IF r.tag = "Some" THEN Append(@, r.pixel) ELSE @,
       !.nones = IF r.tag = "None" THEN @ + 1 ELSE @,
       !.chunks = IF r.pull.tag = "NoPull" THEN @
                  ELSE Append(@, PullEntry(
                           IF x.order = "TopDown" THEN "next" ELSE "next_back",
                           FALSE, r.pull))]

\* pixels.next()
PixelsNext(s) ==
    /\ Turn(s)
    /\ sess[s].pc = "pixels"
    /\ sess[s].nones < MaxNones
    /\ sess' = [sess EXCEPT ![s] =
                  Pulled(@, RawPixels_next(sess[s].pixels, sess[s].reader,
                                           overflow_checks))]
    /\ UNCHANGED <<call, ret, overflow_checks, reader, iter, pulls, rpc, rerr, image>>

Next == \E s \in {1, 2} : FromSlice(s) \/ FromReader(s) \/ Pixels(s) \/ PixelsNext(s)

Spec == Init /\ [][Next]_vars

\* ------------------------------------------------- the Bmp sessions
\* A run makes a Bmp<C> of one file twice: from the slice, then through a
\* SliceReader over the same bytes; call.bits is C::Raw::BITS_PER_PIXEL.
InitBmp ==
    /\ overflow_checks \in BOOLEAN
    /\ image \in Images
    /\ \E order \in {"BottomUp", "TopDown"}, t \in 0..MaxTrunc :
         sess = [s \in {1, 2} |->
                    NewSession(IF s = 1 THEN "bmp_slice" ELSE "bmp_reader", order,
                               Truncated(BmpFile(image, order), t),
                               HeaderBufferLen)]
    /\ \E bits \in ColorBits : call = [op |-> "bmp", bits |-> bits]
    /\ ret = NoRet
    /\ reader = SliceReader_new(<<>>)
    /\ iter = NoIter
    /\ pulls = <<>>
    /\ rpc = "idle"
    /\ rerr = "none"

\* Bmp::<C>::from_slice(file)
BmpFromSlice(s) ==
    /\ Turn(s)
    /\ sess[s].pc = "start" /\ sess[s].kind = "bmp_slice"
    /\ Constructed(s, Bmp_from_slice(sess[s].file, call.bits))

\* Bmp::<C>::from_reader(&reader)
BmpFromReader(s) ==
    /\ Turn(s)
    /\ sess[s].pc = "start" /\ sess[s].kind = "bmp_reader"
    /\ Constructed(s, Bmp_from_reader(sess[s].reader))

\* bmp.pixels(): Pixels::new(self.raw_bmp.pixels())
BmpPixels(s) ==
    /\ sess[s].kind \in {"bmp_slice", "bmp_reader"}
    /\ Pixels(s)

NextBmp == \E s \in {1, 2} : BmpFromSlice(s) \/ BmpFromReader(s) \/ BmpPixels(s)

SpecBmp == InitBmp /\ [][NextBmp]_vars

\* ------------------------------------------- the stand-alone reader's runs
\* The source of reader.rs's tests: image_data[i] = i as u8
TestData(len) == [i \in 1..len |-> (i - 1) % 256]

\* Source lengths: the short ones, and one longer than the internal buffer.
SourceLens == (0..MaxLen) \cup {INTERNAL_BUFFER_SIZE + 1}

\* Strides asked of chunks_exact: the small ones, the buffer's capacity and
\* one more.
Strides == (0..MaxStride) \cup {INTERNAL_BUFFER_SIZE, INTERNAL_BUFFER_SIZE + 1}

InitReader ==
    /\ overflow_checks \in BOOLEAN
    /\ \E len \in SourceLens : reader = SliceReader_new(TestData(len))
    /\ iter = NoIter
    /\ pulls = <<>>
    /\ rpc = "new"
    /\ rerr = "none"
    /\ image = NoImage
    /\ sess = <<>>
    /\ call = NoCall
    /\ ret = NoRet

\* reader.chunks_exact(stride)
ChunksExact ==
    /\ rpc = "new"
    /\ \E stride \in Strides :
         LET r == SliceReader_chunks_exact(reader, stride)
         IN  /\ iter' = r.iter
             /\ rerr' = r.err
             /\ rpc' = IF r.tag = "Ok" THEN "iter" ELSE "err"
    /\ UNCHANGED <<call, ret, overflow_checks, reader, pulls, image, sess>>

\* A pull on the chunk sequence, in direction dir, returning r.
Pull(dir, r) ==
    /\ rpc = "iter"
    /\ Len(pulls) < MaxPulls
    /\ iter' = r.iter
    /\ reader' = r.reader
    /\ pulls' = Append(pulls, PullEntry(dir, reader.borrows > 0, r))
    /\ rpc' = IF r.tag = "Panic" THEN "panic" ELSE "iter"
    /\ UNCHANGED <<call, ret, overflow_checks, rerr, image, sess>>

\* iter.next()
IterNext == Pull("next", SliceReaderIterator_next(iter, reader, overflow_checks))

\* iter.next_back()
IterNextBack ==
    Pull("next_back", SliceReaderIterator_next_back(iter, reader, overflow_checks))

\* The caller drops the chunk it holds (the Ref's Drop releases the borrow).
DropChunk ==
    /\ rpc = "iter"
    /\ reader.borrows > 0
    /\ reader' = [reader EXCEPT !.borrows = @ - 1]
    /\ UNCHANGED <<call, ret, overflow_checks, iter, pulls, rpc, rerr, image, sess>>

NextReader == ChunksExact \/ IterNext \/ IterNextBack \/ DropChunk

SpecReader == InitReader /\ [][NextReader]_vars

\* ------------------------------------------------- single calls: read
\* The ends of the ranges read: around the short sources, and the range of
\* reader.rs's test (2..50).
RangeEnds == (0..(MaxLen + 1)) \cup {50}

\* A destination buffer of n bytes, none of them a byte of TestData.
FreshBuffer(n) == [i \in 1..n |-> 170]

InitRead ==
    /\ overflow_checks \in BOOLEAN
    /\ \E len \in 0..MaxLen : reader = SliceReader_new(TestData(len))
    /\ \E start \in 0..(MaxLen + 1), end \in RangeEnds, n \in 0..MaxBuf :
         call = [op |-> "read", start |-> start, end |-> end,
                 buffer |-> FreshBuffer(n)]
    /\ ret = NoRet
    /\ \E stride \in 0..MaxStride :
         iter = IF stride = 0 THEN NoIter
                ELSE SliceReader_chunks_exact(reader, stride).iter
    /\ pulls = <<>>
    /\ rpc = "idle"
    /\ rerr = "none"
    /\ image = NoImage
    /\ sess = <<>>

\* reader.read(start..end, &mut buffer)
Read ==
    /\ call.op = "read" /\ ret = NoRet
    /\ ret' = SliceReader_read(reader, call.start, call.end, call.buffer,
                               overflow_checks)
    /\ UNCHANGED <<call, overflow_checks, rvars, svars>>

NextRead == Read

SpecRead == InitRead /\ [][NextRead]_vars

\* ------------------------------------- single calls: ColorType::from_header
\* Mask values: the three known patterns, their channels mixed, and an
\* alpha mask (0x8000) on top of each.
MaskValues ==
    {ChannelMasks(r, g, b, a) :
        r \in {ChannelMasks_RGB555.red, ChannelMasks_RGB565.red, ChannelMasks_RGB888.red},
        g \in {ChannelMasks_RGB555.green, ChannelMasks_RGB565.green,
               ChannelMasks_RGB888.green},
        b \in {ChannelMasks_RGB555.blue, ChannelMasks_RGB888.blue},
        a \in {0, 32768}}

MaskOptions == {NoMasks} \cup {SomeMasks(m) : m \in MaskValues}

\* The headers from_header is given; the fields it does not read vary too.
HeaderInputs ==
    {[NoHeader EXCEPT !.bpp = bpp, !.channel_masks = m, !.row_order = o,
                      !.image_size = [width |-> w, height |-> 1]] :
        bpp \in SupportedBpp, m \in MaskOptions,
        o \in {"BottomUp", "TopDown"}, w \in 1..MaxWidth}

InitColorType ==
    /\ overflow_checks \in BOOLEAN
    /\ \E h \in HeaderInputs : call = [op |-> "from_header", header |-> h]
    /\ ret = NoRet
    /\ reader = SliceReader_new(<<>>)
    /\ iter = NoIter
    /\ pulls = <<>>
    /\ rpc = "idle"
    /\ rerr = "none"
    /\ image = NoImage
    /\ sess = <<>>

\* ColorType::from_header(&header)
FromHeader ==
    /\ call.op = "from_header" /\ ret = NoRet
    /\ ret' = ColorType_from_header(call.header)
    /\ UNCHANGED <<call, overflow_checks, rvars, svars>>

NextColorType == FromHeader

SpecColorType == InitColorType /\ [][NextColorType]_vars

\* --------------------------------------------- properties of the reader
SourceLen == Len(reader.image_data)

\* The pulls that yielded a chunk.
Yielded == {i \in 1..Len(pulls) : pulls[i].tag = "Some"}

\* Every pull so far went in direction dir.
Only(dir) == \A i \in 1..Len(pulls) : pulls[i].dir = dir

\* Pull i yielded exactly the source bytes [lo, hi).
YieldedWindow(i, lo, hi) ==
    /\ pulls[i].tag = "Some"
    /\ pulls[i].lo = lo /\ pulls[i].hi = hi
    /\ pulls[i].bytes = Slice(reader.image_data, lo, hi)

\* C5: with 1 <= stride <= capacity, whatever the interleaving of next and
\* next_back, no source byte lies in two yielded chunks and at most
\* floor(L / stride) chunks are yielded.
C5_CursorsNeverCross ==
    (iter.live /\ iter.stride >= 1) =>
        /\ \A i, j \in Yielded :
             i < j => (pulls[i].hi <= pulls[j].lo \/ pulls[j].hi <= pulls[i].lo)
        /\ Cardinality(Yielded) <= SourceLen \div iter.stride

\* C6: forward pulls only, stride >= 1: pull k (from 0) yields the source
\* bytes [k*s, (k+1)*s) for k < floor(L / s) when the chunk before it was
\* released, and every pull from floor(L / s) on yields no chunk.
C6_ForwardWindows ==
    (iter.live /\ iter.stride >= 1 /\ Only("next")) =>
        \A i \in 1..Len(pulls) :
            IF i - 1 < SourceLen \div iter.stride
            THEN pulls[i].held \/
                 YieldedWindow(i, (i - 1) * iter.stride, i * iter.stride)
            ELSE pulls[i].tag = "None"

\* C6's case: a forward-only run that yielded two windows and then ended,
\* over a source whose length is not a multiple of the stride.
C6_Witness ==
    /\ iter.live /\ iter.stride = 2 /\ SourceLen = 5 /\ Only("next")
    /\ Len(pulls) = 3
    /\ YieldedWindow(1, 0, 2) /\ YieldedWindow(2, 2, 4)
    /\ pulls[3].tag = "None"

\* C7: backward pulls only, stride >= 1: pull k (from 0) yields the source
\* bytes [L-(k+1)*s, L-k*s) for k < floor(L / s) when the chunk before it
\* was released, and pull floor(L / s) yields no chunk, also when L is not
\* a multiple of s.
C7_BackwardWindows ==
    (iter.live /\ iter.stride >= 1 /\ Only("next_back")) =>
        \A i \in 1..Len(pulls) :
            /\ i - 1 < SourceLen \div iter.stride =>
                 \/ pulls[i].held
                 \/ YieldedWindow(i, SourceLen - i * iter.stride,
                                  SourceLen - (i - 1) * iter.stride)
            /\ i - 1 = SourceLen \div iter.stride => pulls[i].tag = "None"

\* C8: once a pull in one direction returned no chunk, every later pull in
\* that direction returns no chunk (it neither yields nor faults on a range
\* outside the source).
C8_ExhaustionStable ==
    \A i, j \in 1..Len(pulls) :
        (i < j /\ pulls[i].dir = pulls[j].dir /\ pulls[i].tag = "None")
            => pulls[j].tag = "None"

\* C9: chunks_exact with a stride above INTERNAL_BUFFER_SIZE fails with
\* RequestedChunkTooLarge and creates no chunk sequence, so every chunk a
\* sequence yields holds exactly stride bytes.
C9_ChunkTooLargeFailsEagerly ==
    /\ rpc = "err" => (rerr = "RequestedChunkTooLarge" /\ ~iter.live)
    /\ iter.live => iter.stride <= INTERNAL_BUFFER_SIZE
    /\ \A i \in Yielded :
         /\ Len(pulls[i].bytes) = iter.stride
         /\ pulls[i].hi - pulls[i].lo = iter.stride

\* C9's case: chunks_exact was refused for its stride.
C9_Witness == rpc = "err" /\ rerr = "RequestedChunkTooLarge" /\ ~iter.live

\* -------------------------------------------- properties of the sessions
Sessions == {1, 2}

\* The file of session s holds the whole image: header, table and all rows.
WholeFile(s) == Len(sess[s].file) = DataStart(image) + DataLen(image)

\* The header of session s's file declares more pixel data than the file holds.
DeclaresTooMuch(s) == DataStart(image) + DataLen(image) > Len(sess[s].file)

\* What decoding the logical image must give: every position once, row by
\* row from the top left, with the image's raw color there.
ExpectedPixels ==
    [k \in 1..(image.width * image.height) |->
        [position |-> [x |-> (k - 1) % image.width, y |-> (k - 1) \div image.width],
         color |-> LogicalColor(image, (k - 1) % image.width,
                                (k - 1) \div image.width)]]

\* C1: pulling the raw pixel sequence of a well-formed image to exhaustion
\* yields exactly W * H items, item k at position (k mod W, k div W).
C1_RowMajorPositions ==
    \A s \in Sessions :
        (WholeFile(s) /\ sess[s].pc # "start" /\ Finished(sess[s])) =>
            /\ sess[s].pc = "pixels"
            /\ Len(sess[s].out) = image.width * image.height
            /\ \A k \in 1..Len(sess[s].out) :
                 sess[s].out[k].position =
                     [x |-> (k - 1) % image.width, y |-> (k - 1) \div image.width]

\* C2: a BottomUp and a TopDown file of the same image decode to identical
\* (position, raw color) sequences: the rows of the image from the top.
C2_RowOrderEquivalence ==
    (/\ sess[1].kind = sess[2].kind /\ sess[1].order # sess[2].order
     /\ WholeFile(1) /\ WholeFile(2)
     /\ Finished(sess[1]) /\ Finished(sess[2])) =>
        /\ sess[1].pc = "pixels" /\ sess[2].pc = "pixels"
        /\ sess[1].out = sess[2].out
        /\ sess[1].out = ExpectedPixels

\* C3: the same file bytes decoded by a slice-backed and by a reader-backed
\* session yield identical (position, raw color) sequences.
C3_SliceReaderEquivalence ==
    (/\ sess[1].kind = "slice" /\ sess[2].kind = "reader"
     /\ sess[1].file = sess[2].file /\ WholeFile(1)
     /\ Finished(sess[1]) /\ Finished(sess[2])) =>
        /\ sess[1].pc = "pixels" /\ sess[2].pc = "pixels"
        /\ sess[1].out = sess[2].out

\* C4: when the header declares image_data_start + image_data_len beyond
\* the source's length, the constructing call fails with
\* UnexpectedEndOfFile and no pixel is ever produced.
C4_TruncatedDataRejected ==
    \A s \in Sessions :
        (DeclaresTooMuch(s) /\ sess[s].pc # "start") =>
            /\ sess[s].pc = "err" /\ sess[s].err = "UnexpectedEndOfFile"
            /\ sess[s].out = <<>>

\* The chunks the chunk sequence of session s has yielded.
RowChunks(s) == {i \in 1..Len(sess[s].chunks) : sess[s].chunks[i].tag = "Some"}

\* C10: over a reader holding a whole BMP file, every chunk lies in the
\* image-data region: the first forward chunk is [start, start + stride),
\* the first backward chunk the last stride bytes of the region, and no
\* header or palette byte is yielded as row data.
C10_ChunksCoverImageData ==
    \A s \in Sessions :
        (sess[s].kind = "reader" /\ WholeFile(s)) =>
            \A i \in RowChunks(s) :
                LET c      == sess[s].chunks[i]
                    stride == BytesPerRow(image.width, image.bpp)
                IN  /\ c.lo >= DataStart(image)
                    /\ c.hi <= DataStart(image) + DataLen(image)
                    /\ (i = 1 /\ c.dir = "next") =>
                          (c.lo = DataStart(image) /\ c.hi = c.lo + stride)
                    /\ (i = 1 /\ c.dir = "next_back") =>
                          (c.hi = DataStart(image) + DataLen(image)
                           /\ c.lo = c.hi - stride)

\* ------------------------------------ properties of the pixel sequences
\* Session s decodes a whole BottomUp file through a reader.
ReaderBottomUp(s) ==
    sess[s].kind = "reader" /\ sess[s].order = "BottomUp" /\ WholeFile(s)

\* C11: a reader-backed pixel sequence yields at most W * H pixels and no
\* pull on it faults; once a pull has returned no pixel, no later pull
\* yields a pixel or faults.
C11_EndsWithoutFault ==
    /\ [](\A s \in Sessions :
            (sess[s].kind = "reader" /\ sess[s].bmp.image_reader) =>
                /\ Len(sess[s].out) <= image.width * image.height
                /\ sess[s].pc # "panic")
    /\ [][\A s \in Sessions :
            (sess[s].kind = "reader" /\ sess[s].nones >= 1) =>
                (sess'[s].out = sess[s].out /\ sess'[s].pc # "panic")]_vars

OutColors(s) == [k \in 1..Len(sess[s].out) |-> sess[s].out[k].color]

\* C13: the rows of 1-bit and 4-bit images are unpacked most significant
\* group first, W values a row, the other bits and the padding dropped:
\* the pixels yielded are those of the logical image, and the row
\* 0b10110000 of width 5 gives the indices 1, 0, 1, 1, 0 at y = 0.
C13_SubByteUnpacking ==
    \A s \in Sessions :
        (ReaderBottomUp(s) /\ image.bpp \in {1, 4}) =>
            /\ Len(sess[s].out) <= image.width * image.height
            /\ \A k \in 1..Len(sess[s].out) : sess[s].out[k] = ExpectedPixels[k]
            /\ (sess[s].pc = "pixels" /\ sess[s].nones >= 1) =>
                  Len(sess[s].out) = image.width * image.height
            /\ (image.pat = 2 /\ sess[s].pc = "pixels" /\ sess[s].nones >= 1) =>
                  /\ Slice(sess[s].file, DataStart(image), DataStart(image) + 4)
                        = <<176, 0, 0, 0>>
                  /\ OutColors(s) = [k \in 1..5 |-> U32From(Row10110[k])]
                  /\ \A k \in 1..5 :
                        sess[s].out[k].position = [x |-> k - 1, y |-> 0]

\* C13's case: the row 0b10110000 was decoded to its five pixels.
C13_Witness ==
    \E s \in Sessions :
        /\ ReaderBottomUp(s) /\ image.pat = 2
        /\ sess[s].pc = "pixels" /\ sess[s].nones >= 1
        /\ Len(sess[s].out) = 5
        /\ sess[s].out[1].color = U32From(1) /\ sess[s].out[2].color = U32From(0)

\* The four file bytes of pixel number k (from 1) of a BottomUp 32-bit file.
PixelBytes(s, k) ==
    LET x   == (k - 1) % image.width
        y   == (k - 1) \div image.width
        off == DataStart(image)
                 + (image.height - 1 - y) * BytesPerRow(image.width, image.bpp)
                 + 4 * x
    IN  Slice(sess[s].file, off, off + 4)

\* C14 as stated: two 32-bit pixels whose bytes differ in the fourth byte
\* only are yielded with the same raw color.
C14_HighByteIgnored ==
    \A s \in Sessions :
        (ReaderBottomUp(s) /\ image.bpp = 32) =>
            \A k, j \in 1..Len(sess[s].out) :
                Slice(PixelBytes(s, k), 0, 3) = Slice(PixelBytes(s, j), 0, 3)
                    => sess[s].out[k].color = sess[s].out[j].color

\* C14, amended: the raw color of a 32-bit pixel is the little-endian value
\* of all its four bytes, the fourth byte included; the fourth byte is
\* dropped where Pixels::next makes the color (RawU24::from_u32), so two
\* pixels that differ in it only become the same color there.
C14_HighByteKeptInRawPixel ==
    \A s \in Sessions :
        (ReaderBottomUp(s) /\ image.bpp = 32) =>
            \A k \in 1..Len(sess[s].out) :
                LET b == PixelBytes(s, k)
                IN  /\ sess[s].out[k].color =
                          U32(b[4], b[1] + 256 * b[2] + 65536 * b[3])
                    /\ Pixels_next_raw(sess[s].bmp.color_type, sess[s].out[k].color)
                          = b[1] + 256 * b[2] + 65536 * b[3]

\* C14's case: the two pixels 56 34 12 01 and 56 34 12 02 were yielded
\* with the raw colors 0x01123456 and 0x02123456.
C14_Witness ==
    \E s \in Sessions :
        /\ ReaderBottomUp(s) /\ image.pat = 3
        /\ PixelBytes(s, 1) = <<86, 52, 18, 1>> /\ PixelBytes(s, 2) = <<86, 52, 18, 2>>
        /\ OutColors(s) = <<U32(1, 1193046), U32(2, 1193046)>>

\* C15: every RawBmp that was constructed, from the slice or through a
\* reader, holds image data of exactly header.image_data_len bytes, which
\* is height rows of ceil(width * bpp / 8) bytes rounded up to 4.
C15_ImageDataLength ==
    \A s \in Sessions :
        sess[s].pc \in {"bmp", "pixels"} =>
            LET h == sess[s].bmp.header
                row == ((((h.image_size.width * h.bpp) + 7) \div 8 + 3) \div 4) * 4
            IN  /\ h.image_data_len = row * h.image_size.height
                /\ Len(sess[s].bmp.image_data) = h.image_data_len

\* ----------------------------------------- properties of ColorType::from_header
\* from_header has returned for a header of bit depth bpp.
Resolved(bpp) == call.op = "from_header" /\ ret # NoRet /\ call.header.bpp = bpp

\* C16: for 16 bits, present masks resolve to Rgb555 when they are the
\* RGB555 pattern, to Rgb565 when they are the RGB565 pattern and to the
\* error UnsupportedChannelMasks otherwise; absent masks resolve to Rgb555.
C16_Bits16Resolution ==
    Resolved(16) =>
        LET m == call.header.channel_masks
        IN  /\ ~m.some => ret = ColorTypeOk("Rgb555")
            /\ (m.some /\ m.masks = ChannelMasks_RGB555) => ret = ColorTypeOk("Rgb555")
            /\ (m.some /\ m.masks = ChannelMasks_RGB565) => ret = ColorTypeOk("Rgb565")
            /\ (m.some /\ m.masks \notin {ChannelMasks_RGB555, ChannelMasks_RGB565})
                  => ret = ColorTypeErr("UnsupportedChannelMasks")

\* C16's case: 16 bits with the RGB888 masks was refused.
C16_Witness ==
    /\ Resolved(16)
    /\ call.header.channel_masks = SomeMasks(ChannelMasks_RGB888)
    /\ ret = ColorTypeErr("UnsupportedChannelMasks")

\* C17: for 32 bits, absent masks and the RGB888 pattern resolve to
\* Xrgb8888; every other mask value, the RGB555 and RGB565 patterns
\* included, is the error UnsupportedChannelMasks.
C17_Bits32Resolution ==
    Resolved(32) =>
        LET m == call.header.channel_masks
        IN  IF ~m.some \/ m.masks = ChannelMasks_RGB888
            THEN ret = ColorTypeOk("Xrgb8888")
            ELSE ret = ColorTypeErr("UnsupportedChannelMasks")

\* C17's case: 32 bits with the RGB565 masks was refused.
C17_Witness ==
    /\ Resolved(32)
    /\ call.header.channel_masks = SomeMasks(ChannelMasks_RGB565)
    /\ ret = ColorTypeErr("UnsupportedChannelMasks")

\* C18: bit depths 1, 4, 8 and 24 resolve to Index1, Index4, Index8 and
\* Rgb888 whatever the masks are, and the result of from_header is the
\* same for any two headers of equal bit depth and masks.
C18_DirectResolution ==
    /\ Resolved(1) => ret = ColorTypeOk("Index1")
    /\ Resolved(4) => ret = ColorTypeOk("Index4")
    /\ Resolved(8) => ret = ColorTypeOk("Index8")
    /\ Resolved(24) => ret = ColorTypeOk("Rgb888")
    /\ (call.op = "from_header" /\ ret # NoRet) =>
          \A h \in HeaderInputs :
              (h.bpp = call.header.bpp
                   /\ h.channel_masks = call.header.channel_masks)
                  => ColorType_from_header(h) = ret

\* C18's case: 24 bits with masks of no known pattern resolved to Rgb888.
C18_Witness ==
    /\ Resolved(24)
    /\ call.header.channel_masks =
           SomeMasks(ChannelMasks(ChannelMasks_RGB555.red,
                                  ChannelMasks_RGB888.green,
                                  ChannelMasks_RGB888.blue, 32768))
    /\ ret = ColorTypeOk("Rgb888")

\* --------------------------------------------- properties of a single read
\* read has returned.
ReadDone == call.op = "read" /\ ret # NoRet

\* C19: read with a destination shorter than the requested range fails
\* with BufferTooSmall and leaves the destination as it was.
C19_BufferTooSmall ==
    (ReadDone /\ call.start <= call.end
              /\ call.end - call.start > Len(call.buffer)) =>
        /\ ret.tag = "Err" /\ ret.err = "BufferTooSmall"
        /\ ret.buffer = call.buffer

\* C19's case: the read of reader.rs's test, 2..50 into 3 bytes.
C19_Witness ==
    /\ ReadDone
    /\ call.start = 2 /\ call.end = 50 /\ call.buffer = FreshBuffer(3)
    /\ ret.tag = "Err" /\ ret.err = "BufferTooSmall"

\* C20: read of a range that ends past the source's end, into a
\* destination that is large enough, fails with the error
\* AddressOutOfBounds: it neither faults nor copies.
C20_AddressOutOfBounds ==
    (ReadDone /\ call.start <= call.end
              /\ call.end - call.start <= Len(call.buffer)
              /\ call.end > Len(reader.image_data)) =>
        /\ ret.tag = "Err" /\ ret.err = "AddressOutOfBounds"
        /\ ret.buffer = call.buffer
\* C21: a successful read of n = end - start bytes puts the source's bytes
\* start..end into buffer[0..n) and leaves the rest of the buffer, the
\* source and the cursors of a chunk sequence of the same reader as they
\* were.
C21_ReadFrame ==
    /\ [](ReadDone /\ ret.tag = "Ok" =>
            LET n == call.end - call.start
            IN  /\ Len(ret.buffer) = Len(call.buffer)
                /\ Slice(ret.buffer, 0, n)
                     = Slice(reader.image_data, call.start, call.end)
                /\ \A i \in (n + 1)..Len(call.buffer) :
                     ret.buffer[i] = call.buffer[i])
    /\ [][ret' # ret => reader' = reader /\ iter' = iter]_vars

\* C21's case: 2..4 read into 3 bytes next to a live chunk sequence; the
\* third byte keeps its old value.
C21_Witness ==
    /\ ReadDone /\ ret.tag = "Ok"
    /\ call.start = 2 /\ call.end = 4
    /\ ret.buffer = <<2, 3, 170>>
    /\ iter.live /\ iter.stride = 2 /\ iter.index = MAX
\* ------------------------------------------- properties of from_reader
\* The pixel-data offset that the first 14 bytes of session s's file
\* declare.
DeclaredStart(s) == Header_parse_size(sess[s].file).header.image_data_start

\* Session s's source ends before the fixed prefix does, or before the
\* pixel-data offset it declares, and the header buffer is long enough for
\* that offset.
ShortSource(s) ==
    \/ Len(sess[s].file) < FIXED_PORTION_OF_BMP_HEADER_SIZE
    \/ /\ Len(sess[s].file) < DeclaredStart(s)
       /\ DeclaredStart(s) <= Len(sess[s].header_buffer)

\* C22: RawBmp::from_reader over a source shorter than the 14-byte prefix
\* or shorter than the pixel-data offset it declares fails with
\* UnexpectedEndOfFile: it does not fault and makes no bitmap.
C22_ShortSourceRejected ==
    \A s \in Sessions :
        (sess[s].kind = "reader" /\ sess[s].pc # "start" /\ ShortSource(s)) =>
            /\ sess[s].pc = "err"
            /\ sess[s].err = "UnexpectedEndOfFile"
\* C26: RawBmp::from_reader over a source whose prefix declares a
\* pixel-data offset beyond the header buffer's length fails with
\* UnsupportedHeaderLength carrying that offset; the header buffer is as
\* the caller passed it and the reader was asked for nothing but the
\* 14-byte prefix.
C26_HeaderBufferTooShort ==
    \A s \in Sessions :
        (/\ sess[s].kind = "reader" /\ sess[s].pc # "start"
         /\ Len(sess[s].file) >= FIXED_PORTION_OF_BMP_HEADER_SIZE
         /\ DeclaredStart(s) > Len(sess[s].header_buffer)) =>
            /\ sess[s].pc = "err"
            /\ sess[s].err = "UnsupportedHeaderLength"
            /\ sess[s].arg = DeclaredStart(s)
            /\ sess[s].header_buffer = [i \in 1..Len(sess[s].header_buffer) |-> 10]
            /\ sess[s].reads = <<<<0, FIXED_PORTION_OF_BMP_HEADER_SIZE>>>>

\* C26's case: an 8-bit file declares its pixel data behind the color
\* table, and the header buffer ends inside the table.
C26_Witness ==
    \E s \in Sessions :
        /\ sess[s].kind = "reader" /\ WholeFile(s) /\ image.bpp = 8
        /\ Len(sess[s].header_buffer) < DeclaredStart(s)
        /\ sess[s].pc = "err" /\ sess[s].err = "UnsupportedHeaderLength"
        /\ sess[s].arg = InfoHeaderEnd + 4 * MaxPalette
\* ---------------------------------------------- properties of raw colors
\* C28: the raw color of every pixel of an image of bit depth b in
\* {1, 4, 8, 16, 24} is below 2^b, whatever bytes the rows were read from;
\* for the indexed depths it is the palette index stored in the file, not
\* the color table's entry for it.
C28_RawColorRange ==
    \A s \in Sessions :
        /\ image.bpp \in {1, 4, 8, 16, 24} =>
              \A k \in 1..Len(sess[s].out) :
                 /\ sess[s].out[k].color.hi = 0
                 /\ sess[s].out[k].color.lo \in 0..(2 ^ image.bpp - 1)
        /\ (ReaderBottomUp(s) /\ image.bpp \in {1, 4, 8}) =>
              \A k \in 1..Len(sess[s].out) :
                 sess[s].out[k].color
                    = LogicalColor(image, (k - 1) % image.width,
                                   (k - 1) \div image.width)

\* C28's case: an 8-bit image decoded to its end; its first pixel holds
\* the index 37, which the color table of MaxPalette entries lacks.
C28_Witness ==
    \E s \in Sessions :
        /\ ReaderBottomUp(s) /\ image.bpp = 8 /\ image.pat = 0
        /\ sess[s].pc = "pixels" /\ sess[s].nones >= 1
        /\ Len(sess[s].out) = image.width * image.height
        /\ sess[s].out[1].color = U32From(37)
\* ------------------------------------------- properties of held chunks
\* C27 as stated: every pull made while a chunk is held faults, and every
\* chunk yielded shows the source bytes of its own window.
C27_HeldPullFaults ==
    \A i \in 1..Len(pulls) :
        /\ pulls[i].held => pulls[i].tag = "Panic"
        /\ pulls[i].tag = "Some" =>
              pulls[i].bytes = Slice(reader.image_data, pulls[i].lo, pulls[i].hi)

\* C27, amended: a held chunk is never overwritten.  A pull made while a
\* chunk is held yields no chunk: it returns None (the sequence is
\* exhausted in that direction) or faults; the buffer does not change while
\* a chunk is held; and every chunk yielded shows the source bytes of its
\* own window.
C27_HeldChunkKept ==
    /\ [](\A i \in 1..Len(pulls) :
            /\ pulls[i].held => pulls[i].tag \in {"None", "Panic"}
            /\ pulls[i].tag = "Some" =>
                  /\ pulls[i].hi - pulls[i].lo = iter.stride
                  /\ pulls[i].bytes
                       = Slice(reader.image_data, pulls[i].lo, pulls[i].hi))
    /\ [][reader.borrows > 0 => reader'.buffer = reader.buffer]_vars

\* C27's case: of 5 bytes in chunks of 2, the first chunk is held while the
\* second is pulled: the pull faults on the borrow and the held view still
\* shows the bytes 0, 1.
C27_Witness ==
    /\ SourceLen = 5 /\ iter.stride = 2
    /\ Len(pulls) = 2
    /\ YieldedWindow(1, 0, 2)
    /\ pulls[2].dir = "next" /\ pulls[2].held /\ pulls[2].tag = "Panic"
    /\ reader.borrows = 1
    /\ Slice(reader.buffer, 0, 2) = <<0, 1>>
\* ------------------------------------------------ properties of Bmp
\* Session s made its Bmp: the constructor returned Ok.
BmpMade(s) == sess[s].pc \in {"bmp", "pixels", "panic"}

\* The color Pixels::next is to yield for pixel k (from 1) of an indexed
\* image: the color table's entry of the pixel's index, or zero when the
\* table has no such entry.
ExpectedColor(s, k) ==
    LET index == ExpectedPixels[k].color.lo
        entry == ColorTable_get(sess[s].bmp.color_table, index)
    IN  IF entry.some THEN entry.color ELSE 0

\* C23: the pixel sequence of a Bmp of an indexed image with a color table
\* yields all W * H pixels, each at its position with its table entry, the
\* pixels whose index the table lacks with the zero color.
C23_FallbackColor ==
    \A s \in Sessions :
        (/\ sess[s].kind = "bmp_slice" /\ WholeFile(s) /\ image.bpp <= 8
         /\ BmpMade(s) /\ Finished(sess[s])) =>
            /\ sess[s].pc = "pixels"
            /\ Len(sess[s].out) = image.width * image.height
            /\ \A k \in 1..Len(sess[s].out) :
                  /\ sess[s].out[k].position = ExpectedPixels[k].position
                  /\ sess[s].out[k].color = U32From(ExpectedColor(s, k))

AllowedMismatch == (image.bpp = 32 /\ call.bits = 24) \/ image.bpp \in {1, 8}

C25_FromReaderBinds ==
    \A s \in Sessions :
        (/\ sess[s].kind = "bmp_reader" /\ sess[s].pc # "start" /\ WholeFile(s)
         /\ call.bits = image.bpp) =>
            /\ BmpMade(s)
            /\ sess[s].bmp.image_reader
            /\ sess[s].bmp.header = RawBmp_from_slice(sess[s].file).bmp.header
====
